---- MODULE Spec2Model ----
(***************************************************************************)
(* The shared connection registry of pkg/connection/connection_pool.go.    *)
(*                                                                         *)
(* Strings that take part in the persistent key (ids, type names) are      *)
(* modelled as the sequence of their '.'-free segments: "c1" is <<"c1">>,  *)
(* "a.b" is <<"a", "b">> and the empty string is <<"">>.  Joining with "." *)
(* is concatenation of the segment sequences and strings.Split(s, ".") is  *)
(* the segment sequence itself, so the boundary between <typ> and <id> is  *)
(* lost in a key exactly as it is in the program.                          *)
(*                                                                         *)
(* Every entry point is an operator from the registry's state and the      *)
(* call's inputs to the call's Outcome: the state it leaves, the value it  *)
(* returns, the factory invocations it made and the connections it closed. *)
(* The action of the same call applies that outcome.                       *)
(*                                                                         *)
(* Spec is the registry under one caller: a call returns before the next   *)
(* one starts.  ReloadConnection is split at its loop: one step reads the  *)
(* stored configurations, one step per entry processes it.  SpecConc and   *)
(* SpecConcReload are the registry under two goroutines, every call split  *)
(* at its lock operations, at its lookup and at each factory invocation.   *)
(***************************************************************************)
EXTENDS Integers, Sequences, FiniteSets, TLC

VARIABLES
    connectionPool,  \* globalConnectionManager.connectionPool: id -> ConnectionMeta
    failConnection,  \* globalConnectionManager.failConnection: id -> error message
    store,           \* the key-value storage under "connections": key -> props
    cfgs,            \* ReloadConnection's local cfgs: the entries not yet visited
    conns,           \* every connection a factory returned: conns[c] = Close calls on c
    holders,         \* ghost: the <<caller id, selector>> attached and not yet detached
    reloaded,        \* ghost: the named records that were live at the last init and
                     \* what the reload that followed it did, per key
    lock,            \* globalConnectionManager.RWMutex: the writer and the readers
    running          \* per goroutine: the call it is in, where it is, what it returned

vars == <<connectionPool, failConnection, store, cfgs, conns, holders, reloaded,
          lock, running>>

---------------------------------------------------------------------------
(* Bounds of the model. *)

\* attach is explored while refCount < MaxRef
MaxRef == 2
\* detach by selector is explored while refCount > -MaxNeg
MaxNeg == 1
\* the factories return at most MaxConns connections in one behaviour
MaxConns == 2
\* the factory invocations the elapsed budget of one backoff.Retry allows
MaxAttempts == 2

---------------------------------------------------------------------------
(* Strings, property bags and the inputs drawn from them. *)

EmptyStr == <<"">>

Ids == {<<"c1">>, <<"a", "b">>}

Types == {<<"Mock">>, <<"nope">>}

\* modules.ConnectionRegister: the registered (lowercase) type names
ConnectionRegister == {<<"mock">>}

LowerSeg(s) == IF s = "Mock" THEN "mock" ELSE s

\* strings.ToLower
ToLower(str) == [i \in DOMAIN str |-> LowerSeg(str[i])]

\* A property bag is a set of entries; t is the dynamic type of the value.
Entry(k, t, v) == [k |-> k, t |-> t, v |-> v]

EmptyProps == {}

KProps == {Entry("k", "number", <<"1">>)}

SelProps(sel) == {Entry("connectionSelector", "string", sel)}

NumSelProps == {Entry("connectionSelector", "number", <<"5">>)}

\* the bags without a selector that Create* and FetchConnection are called with
CreateProps == {KProps}

\* the bags DetachConnection is called with
DetachProps == {EmptyProps, KProps, NumSelProps, SelProps(EmptyStr)}
                   \cup {SelProps(<<"c1">>), SelProps(<<"c2">>)}

extractSelID(props) ==
    IF Cardinality(props) < 1 THEN EmptyStr
    ELSE IF ~ \E e \in props : e.k = "connectionSelector" THEN EmptyStr
    ELSE LET v == CHOOSE e \in props : e.k = "connectionSelector"
         IN  IF v.t # "string" THEN EmptyStr ELSE v.v

\* Go maps: m[k] = v and delete(m, k)
Put(m, k, v) == [x \in DOMAIN m \cup {k} |-> IF x = k THEN v ELSE m[x]]

Del(m, k) == [x \in DOMAIN m \ {k} |-> m[x]]

EmptyMap == [x \in {} |-> x]

\* An error value: the message and the id formatted into it.
Err(msg, id) == [msg |-> msg, id |-> id]

Nil == Err("nil", EmptyStr)

\* len(str) of a string without '.': 0 for the empty string
StrLen(str) == IF str = EmptyStr THEN 0 ELSE Len(str)

---------------------------------------------------------------------------
(* The persistent store: conf.WriteCfgIntoKVStorage, DropCfgKeyFromStorage  *)
(* and GetCfgFromKVStorage, keyed "connections.<typ>.<id>".                 *)

StoreKey(typ, id) == <<"connections">> \o typ \o id

storeConnectionMeta(st, typ, id, props) == Put(st, StoreKey(typ, id), props)

dropConnectionStore(st, typ, id) == Del(st, StoreKey(typ, id))

\* strings.Split(key, ".")
Split(key) == key

---------------------------------------------------------------------------
(* The factory driver.  A run gives the outcome of each factory invocation *)
(* in turn: "ok", "io" (errorx.IsIOError) or "perm"; its length is the     *)
(* number of invocations after which the elapsed budget is used up and the *)
(* backoff's NextBackOff returns Stop.                                     *)

Outcomes == {"ok", "io", "perm"}

FactoryRuns == [1..MaxAttempts -> Outcomes]

\* the retry loop with no factory error wrapped by backoff.Permanent
RECURSIVE Retry_EveryError(_, _)
Retry_EveryError(run, n) ==
    LET o == run[n]
    IN  IF o = "ok" THEN [err |-> Nil, calls |-> n]
        ELSE IF n >= Len(run)
        THEN [err |-> Err(IF o = "perm" THEN "permanent error" ELSE "io error",
                          EmptyStr),
              calls |-> n]
        ELSE Retry_EveryError(run, n + 1)

\* backoff.Retry on the closure createNamedConnection gives it: attempt n of run
RECURSIVE Retry(_, _)
Retry(run, n) ==
    LET o == run[n]
    IN  IF o = "ok" THEN [err |-> Nil, calls |-> n]
        ELSE IF o = "perm" THEN [err |-> Err("permanent error", EmptyStr), calls |-> n]
        ELSE IF n >= Len(run) THEN [err |-> Err("io error", EmptyStr), calls |-> n]
        ELSE Retry(run, n + 1)

createNamedConnection(typ, run) ==
    IF ToLower(typ) \notin ConnectionRegister
    THEN [err |-> Err("unknown connection type", EmptyStr), calls |-> 0]
    ELSE Retry(run, 1)

---------------------------------------------------------------------------
(* Records. *)

\* ConnectionMeta; named is a ghost field: the record was made by
\* CreateNamedConnection or ReloadConnection, not by CreateNonStoredConnection.
ConnectionMeta(id, typ, props, conn, named) ==
    [ID |-> id, Typ |-> typ, Props |-> props, conn |-> conn, refCount |-> 0,
     named |-> named]

\* a Close call on the connection of meta
Closed(meta) == [conn |-> meta.conn, refCount |-> meta.refCount, named |-> meta.named]

\* What a call does: the tables, the store and the connections it leaves, the
\* error it returns, the factory invocations it made, the Close calls it made.
Outcome(pool, fail, st, cs, err, calls, closed) ==
    [connectionPool |-> pool, failConnection |-> fail, store |-> st, conns |-> cs,
     err |-> err, calls |-> calls, closed |-> closed]

\* a call that returns err and changes nothing
Returns(err, calls) ==
    Outcome(connectionPool, failConnection, store, conns, err, calls, {})

\* conn.Close(ctx) on connection c
Close(cs, c) == [cs EXCEPT ![c] = @ + 1]

---------------------------------------------------------------------------
(* The entry points, as outcomes. *)

attachConnection(id) ==
    IF id = EmptyStr
    THEN Returns(Err("connection id should be defined", EmptyStr), 0)
    ELSE IF id \notin DOMAIN connectionPool
    THEN Returns(Err("not existed", id), 0)
    ELSE Outcome([connectionPool EXCEPT ![id].refCount = @ + 1],
                 failConnection, store, conns, Nil, 0, {})

\* detachConnection that takes an id it does not find out of failConnection
detachConnection_ClearsFailed(id, remove) ==
    IF id \notin DOMAIN connectionPool
    THEN Outcome(connectionPool,
                 IF id \in DOMAIN failConnection
                 THEN Del(failConnection, id) ELSE failConnection,
                 store, conns, Nil, 0, {})
    ELSE IF remove
    THEN Outcome(Del(connectionPool, id), failConnection, store,
                 Close(conns, connectionPool[id].conn), Nil, 0,
                 {Closed(connectionPool[id])})
    ELSE Outcome([connectionPool EXCEPT ![id].refCount = @ - 1],
                 failConnection, store, conns, Nil, 0, {})

\* detachConnection that leaves refCount as it is
detachConnection_KeepsRef(id, remove) ==
    IF id \notin DOMAIN connectionPool
    THEN Returns(Nil, 0)
    ELSE IF remove
    THEN Outcome(Del(connectionPool, id), failConnection, store,
                 Close(conns, connectionPool[id].conn), Nil, 0,
                 {Closed(connectionPool[id])})
    ELSE Returns(Nil, 0)

detachConnection(id, remove) ==
    IF id \notin DOMAIN connectionPool
    THEN Returns(Nil, 0)
    ELSE IF remove
    THEN Outcome(Del(connectionPool, id), failConnection, store,
                 Close(conns, connectionPool[id].conn), Nil, 0,
                 {Closed(connectionPool[id])})
    ELSE Outcome([connectionPool EXCEPT ![id].refCount = @ - 1],
                 failConnection, store, conns, Nil, 0, {})

\* CreateNonStoredConnection with CreateNamedConnection's store write
CreateNonStoredConnection_Stores(id, typ, props, run) ==
    IF id = EmptyStr \/ typ = EmptyStr
    THEN Returns(Err("connection id and type should be defined", EmptyStr), 0)
    ELSE IF id \in DOMAIN connectionPool
    THEN Returns(Err("already been created", id), 0)
    ELSE LET r == createNamedConnection(typ, run)
             st == storeConnectionMeta(store, typ, id, props)
         IN  IF r.err # Nil
             THEN Outcome(connectionPool, failConnection, st, conns, r.err, r.calls, {})
             ELSE Outcome(Put(connectionPool, id,
                              ConnectionMeta(id, typ, props, Len(conns) + 1, FALSE)),
                          failConnection, st, Append(conns, 0), Nil, r.calls, {})

CreateNonStoredConnection(id, typ, props, run) ==
    IF id = EmptyStr \/ typ = EmptyStr
    THEN Returns(Err("connection id and type should be defined", EmptyStr), 0)
    ELSE IF id \in DOMAIN connectionPool
    THEN Returns(Err("already been created", id), 0)
    ELSE LET r == createNamedConnection(typ, run)
         IN  IF r.err # Nil
             THEN Returns(r.err, r.calls)
             ELSE Outcome(Put(connectionPool, id,
                              ConnectionMeta(id, typ, props, Len(conns) + 1, FALSE)),
                          failConnection, store, Append(conns, 0), Nil, r.calls, {})

FetchConnection(id, typ, props, run) ==
    IF id = EmptyStr
    THEN Returns(Err("connection id should be defined", EmptyStr), 0)
    ELSE LET selID == extractSelID(props)
         IN  IF StrLen(selID) < 1
             THEN CreateNonStoredConnection(id, typ, props, run)
             ELSE attachConnection(selID)

DetachConnection(id, props) ==
    IF id = EmptyStr
    THEN Returns(Err("connection id should be defined", EmptyStr), 0)
    ELSE LET selID == extractSelID(props)
         IN  IF StrLen(selID) < 1
             THEN detachConnection(id, TRUE)
             ELSE detachConnection(selID, FALSE)

\* CreateNamedConnection that drops the stored entry when the driver fails
CreateNamedConnection_RollsBack(id, typ, props, storeOk, run) ==
    IF id = EmptyStr \/ typ = EmptyStr
    THEN Returns(Err("connection id and type should be defined", EmptyStr), 0)
    ELSE IF id \in DOMAIN connectionPool
    THEN Returns(Err("already been created", id), 0)
    ELSE IF ~storeOk
    THEN Returns(Err("store write failed", EmptyStr), 0)
    ELSE LET st == storeConnectionMeta(store, typ, id, props)
             r == createNamedConnection(typ, run)
         IN  IF r.err # Nil
             THEN Outcome(connectionPool, failConnection,
                          dropConnectionStore(st, typ, id), conns, r.err, r.calls, {})
             ELSE Outcome(Put(connectionPool, id,
                              ConnectionMeta(id, typ, props, Len(conns) + 1, TRUE)),
                          IF id \in DOMAIN failConnection
                          THEN Del(failConnection, id) ELSE failConnection,
                          st, Append(conns, 0), Nil, r.calls, {})

\* CreateNamedConnection that goes on when storeConnectionMeta returned an error
CreateNamedConnection_IgnoresStoreErr(id, typ, props, storeOk, run) ==
    IF id = EmptyStr \/ typ = EmptyStr
    THEN Returns(Err("connection id and type should be defined", EmptyStr), 0)
    ELSE IF id \in DOMAIN connectionPool
    THEN Returns(Err("already been created", id), 0)
    ELSE LET st == IF storeOk THEN storeConnectionMeta(store, typ, id, props) ELSE store
             r == createNamedConnection(typ, run)
         IN  IF r.err # Nil
             THEN Outcome(connectionPool, failConnection, st, conns, r.err, r.calls, {})
             ELSE Outcome(Put(connectionPool, id,
                              ConnectionMeta(id, typ, props, Len(conns) + 1, TRUE)),
                          IF id \in DOMAIN failConnection
                          THEN Del(failConnection, id) ELSE failConnection,
                          st, Append(conns, 0), Nil, r.calls, {})

CreateNamedConnection(id, typ, props, storeOk, run) ==
    IF id = EmptyStr \/ typ = EmptyStr
    THEN Returns(Err("connection id and type should be defined", EmptyStr), 0)
    ELSE IF id \in DOMAIN connectionPool
    THEN Returns(Err("already been created", id), 0)
    ELSE IF ~storeOk
    THEN Returns(Err("store write failed", EmptyStr), 0)
    ELSE LET st == storeConnectionMeta(store, typ, id, props)
             r == createNamedConnection(typ, run)
         IN  IF r.err # Nil
             THEN Outcome(connectionPool, failConnection, st, conns, r.err, r.calls, {})
             ELSE Outcome(Put(connectionPool, id,
                              ConnectionMeta(id, typ, props, Len(conns) + 1, TRUE)),
                          IF id \in DOMAIN failConnection
                          THEN Del(failConnection, id) ELSE failConnection,
                          st, Append(conns, 0), Nil, r.calls, {})

\* DropNameConnection that goes on when dropConnectionStore returned an error
DropNameConnection_IgnoresDropErr(selId, dropOk) ==
    IF selId = EmptyStr
    THEN Returns(Err("connection id should be defined", EmptyStr), 0)
    ELSE IF selId \notin DOMAIN connectionPool
    THEN Outcome(connectionPool,
                 IF selId \in DOMAIN failConnection
                 THEN Del(failConnection, selId) ELSE failConnection,
                 store, conns, Nil, 0, {})
    ELSE LET meta == connectionPool[selId]
         IN  IF meta.refCount > 0
             THEN Returns(Err("can't be dropped due to reference", selId), 0)
             ELSE Outcome(Del(connectionPool, selId), failConnection,
                          IF dropOk THEN dropConnectionStore(store, meta.Typ, selId)
                          ELSE store,
                          Close(conns, meta.conn), Nil, 0, {Closed(meta)})

\* DropNameConnection without the check of meta.refCount
DropNameConnection_NoRefCheck(selId, dropOk) ==
    IF selId = EmptyStr
    THEN Returns(Err("connection id should be defined", EmptyStr), 0)
    ELSE IF selId \notin DOMAIN connectionPool
    THEN Outcome(connectionPool,
                 IF selId \in DOMAIN failConnection
                 THEN Del(failConnection, selId) ELSE failConnection,
                 store, conns, Nil, 0, {})
    ELSE LET meta == connectionPool[selId]
         IN  IF ~dropOk
             THEN Returns(Err("drop connection failed", selId), 0)
             ELSE Outcome(Del(connectionPool, selId), failConnection,
                          dropConnectionStore(store, meta.Typ, selId),
                          Close(conns, meta.conn), Nil, 0, {Closed(meta)})

DropNameConnection(selId, dropOk) ==
    IF selId = EmptyStr
    THEN Returns(Err("connection id should be defined", EmptyStr), 0)
    ELSE IF selId \notin DOMAIN connectionPool
    THEN Outcome(connectionPool,
                 IF selId \in DOMAIN failConnection
                 THEN Del(failConnection, selId) ELSE failConnection,
                 store, conns, Nil, 0, {})
    ELSE LET meta == connectionPool[selId]
         IN  IF meta.refCount > 0
             THEN Returns(Err("can't be dropped due to reference", selId), 0)
             ELSE IF ~dropOk
             THEN Returns(Err("drop connection failed", selId), 0)
             ELSE Outcome(Del(connectionPool, selId), failConnection,
                          dropConnectionStore(store, meta.Typ, selId),
                          Close(conns, meta.conn), Nil, 0, {Closed(meta)})

InitConnectionManager ==
    Outcome(EmptyMap, EmptyMap, store, conns, Nil, 0, {})

\* The body of ReloadConnection's loop, on the entry key of cfgs.
ReloadEntry(key, run) ==
    LET names == Split(key)
    IN  IF Len(names) # 3
        THEN Returns(Nil, 0)
        ELSE LET typ == <<names[2]>>
                 id == <<names[3]>>
                 r == createNamedConnection(typ, run)
             IN  IF r.err # Nil
                 THEN Outcome(connectionPool, Put(failConnection, id, r.err.msg),
                              store, conns, r.err, r.calls, {})
                 ELSE Outcome(Put(connectionPool, id,
                                  ConnectionMeta(id, typ, cfgs[key], Len(conns) + 1,
                                                 TRUE)),
                              failConnection, store, Append(conns, 0), Nil,
                              r.calls, {})

---------------------------------------------------------------------------
(* The queries; pingErr is the set of connections whose Ping returns an     *)
(* error.                                                                   *)

GetConnectionRef(id) ==
    IF id \notin DOMAIN connectionPool THEN 0 ELSE connectionPool[id].refCount

GetAllConnectionsID == DOMAIN connectionPool

PingConnection(id, pingErr) ==
    IF id = EmptyStr THEN Err("connection id should be defined", EmptyStr)
    ELSE IF id \notin DOMAIN connectionPool THEN Err("not existed", id)
    ELSE IF connectionPool[id].conn \in pingErr THEN Err("ping error", EmptyStr)
    ELSE Nil

GetAllConnectionStatus(pingErr) ==
    [id \in DOMAIN failConnection \cup DOMAIN connectionPool |->
        IF id \in DOMAIN connectionPool
        THEN IF connectionPool[id].conn \in pingErr
             THEN [Status |-> "fail", ErrMsg |-> "ping error"]
             ELSE [Status |-> "running", ErrMsg |-> ""]
        ELSE [Status |-> "fail", ErrMsg |-> failConnection[id]]]

---------------------------------------------------------------------------
(* Ghost bookkeeping. *)

\* the reload log once any call other than ReloadConnection has been made
Stale == [phase |-> "stale", log |-> EmptyMap, before |-> {}]

\* the ids, types and props of the live records CreateNamedConnection or
\* ReloadConnection made
NamedLive ==
    {[ID |-> connectionPool[id].ID, Typ |-> connectionPool[id].Typ,
      Props |-> connectionPool[id].Props] :
        id \in {x \in DOMAIN connectionPool : connectionPool[x].named}}

\* FetchConnection(id, .., props) that returned err
Hold(h, id, props, err) ==
    IF id # EmptyStr /\ StrLen(extractSelID(props)) >= 1 /\ err = Nil
    THEN h \cup {<<id, extractSelID(props)>>} ELSE h

\* DetachConnection(id, props)
Release(h, id, props) ==
    IF id # EmptyStr /\ StrLen(extractSelID(props)) >= 1
    THEN h \ {<<id, extractSelID(props)>>} ELSE h

---------------------------------------------------------------------------
(* The actions: a call is made while no other is in progress, and its       *)
(* outcome becomes the state.                                               *)

\* no call is in progress (ReloadConnection is between two of its steps otherwise)
Idle == DOMAIN cfgs = {}

\* the part of the state space that is explored
InBounds(o) ==
    /\ Len(o.conns) <= MaxConns
    /\ \A id \in DOMAIN o.connectionPool :
           /\ o.connectionPool[id].refCount <= MaxRef
           /\ o.connectionPool[id].refCount >= -MaxNeg

Apply(o) ==
    /\ InBounds(o)
    /\ connectionPool' = o.connectionPool
    /\ failConnection' = o.failConnection
    /\ store' = o.store
    /\ conns' = o.conns

\* the goroutines that call the registry
Procs == {"p1", "p2"}

\* the zero value of sync.RWMutex
Unlocked == [w |-> "none", r |-> {}]

\* a goroutine that is in no call and has made none
NoCall == [op |-> "none", pc |-> "idle", id |-> EmptyStr, typ |-> EmptyStr,
           n |-> 0, err |-> Nil]

Init ==
    /\ connectionPool = EmptyMap
    /\ failConnection = EmptyMap
    /\ store = EmptyMap
    /\ cfgs = EmptyMap
    /\ conns = <<>>
    /\ holders = {}
    /\ reloaded = [phase |-> "init", log |-> EmptyMap, before |-> {}]
    /\ lock = Unlocked
    /\ running = [p \in Procs |-> NoCall]

DoInit ==
    /\ Idle
    /\ Apply(InitConnectionManager)
    /\ reloaded' = [phase |-> "init", log |-> EmptyMap, before |-> NamedLive]
    /\ UNCHANGED <<cfgs, holders>>
    /\ UNCHANGED <<lock, running>>

\* ReloadConnection up to its loop: read the stored configurations.
DoReload(cfgOk) ==
    /\ Idle
    /\ cfgs' = IF cfgOk THEN store ELSE cfgs
    /\ reloaded' = IF cfgOk /\ reloaded.phase = "init"
                   THEN [reloaded EXCEPT !.phase = "fresh"] ELSE Stale
    /\ UNCHANGED <<connectionPool, failConnection, store, conns, holders>>
    /\ UNCHANGED <<lock, running>>

\* One iteration of ReloadConnection's loop; a Go map is ranged over in any order.
DoReloadEntry(key, run) ==
    /\ key \in DOMAIN cfgs
    /\ Apply(ReloadEntry(key, run))
    /\ cfgs' = Del(cfgs, key)
    /\ reloaded' = IF reloaded.phase = "fresh" /\ Len(Split(key)) = 3
                   THEN [reloaded EXCEPT !.log = Put(@, key, ReloadEntry(key, run).err.msg)]
                   ELSE reloaded
    /\ UNCHANGED holders
    /\ UNCHANGED <<lock, running>>

DoCreateNamed(id, typ, props, storeOk, run) ==
    /\ Idle
    /\ Apply(CreateNamedConnection(id, typ, props, storeOk, run))
    /\ reloaded' = Stale
    /\ UNCHANGED <<cfgs, holders>>
    /\ UNCHANGED <<lock, running>>

DoCreateNonStored(id, typ, props, run) ==
    /\ Idle
    /\ Apply(CreateNonStoredConnection(id, typ, props, run))
    /\ reloaded' = Stale
    /\ UNCHANGED <<cfgs, holders>>
    /\ UNCHANGED <<lock, running>>

\* holders is a set: a caller that holds a selector does not fetch it again
\* before it has detached from it.
DoFetch(id, typ, props, run) ==
    /\ Idle
    /\ Apply(FetchConnection(id, typ, props, run))
    /\ holders' = Hold(holders, id, props, FetchConnection(id, typ, props, run).err)
    /\ Cardinality(holders') = Cardinality(holders) + 1
          \/ StrLen(extractSelID(props)) < 1
          \/ FetchConnection(id, typ, props, run).err # Nil
    /\ reloaded' = Stale
    /\ UNCHANGED cfgs
    /\ UNCHANGED <<lock, running>>

DoDetach(id, props) ==
    /\ Idle
    /\ Apply(DetachConnection(id, props))
    /\ holders' = Release(holders, id, props)
    /\ reloaded' = Stale
    /\ UNCHANGED cfgs
    /\ UNCHANGED <<lock, running>>

DoDrop(selId, dropOk) ==
    /\ Idle
    /\ Apply(DropNameConnection(selId, dropOk))
    /\ reloaded' = Stale
    /\ UNCHANGED <<cfgs, holders>>
    /\ UNCHANGED <<lock, running>>

---------------------------------------------------------------------------
(* The runs a Create* call is explored with.  A call that returns before   *)
(* it comes to a registered factory invokes none, so one run stands for    *)
(* all of them; and the driver reads a run up to its first outcome that is *)
(* not "io", so one run stands for all that agree up to there.             *)

RunsFor(id, typ, storeOk) ==
    IF /\ id # EmptyStr
       /\ id \notin DOMAIN connectionPool
       /\ storeOk
       /\ ToLower(typ) \in ConnectionRegister
    THEN {run \in FactoryRuns :
             \A k \in 2..MaxAttempts :
                 (\E j \in 1..(k - 1) : run[j] # "io") => run[k] = "ok"}
    ELSE {[n \in 1..MaxAttempts |-> "ok"]}

---------------------------------------------------------------------------
(* Spec: the registry in service, under one caller, on names without '.'.  *)
(* FetchConnection reads typ and the factory only when props hold no       *)
(* selector, so the calls with a selector are given one typ and one run.   *)

Callers == {<<"c1">>, <<"c2">>, EmptyStr}

TypArgs == Types \cup {EmptyStr}

Next ==
    \/ \E id \in Callers, typ \in TypArgs, props \in CreateProps, storeOk \in BOOLEAN :
       \E run \in RunsFor(id, typ, storeOk) :
           DoCreateNamed(id, typ, props, storeOk, run)
    \/ \E id \in Callers, typ \in TypArgs, props \in CreateProps :
       \E run \in RunsFor(id, typ, TRUE) :
           DoCreateNonStored(id, typ, props, run)
    \/ \E id \in Callers, typ \in TypArgs, props \in CreateProps :
       \E run \in RunsFor(id, typ, TRUE) :
           DoFetch(id, typ, props, run)
    \/ \E id \in Callers, sel \in Callers \ {EmptyStr} :
           DoFetch(id, <<"Mock">>, SelProps(sel), [n \in 1..MaxAttempts |-> "ok"])
    \/ \E id \in Callers, props \in DetachProps : DoDetach(id, props)
    \/ \E selId \in Callers, dropOk \in BOOLEAN : DoDrop(selId, dropOk)

Spec == Init /\ [][Next]_vars

---------------------------------------------------------------------------
(* SpecRestart: the registry across restarts, on ids with and without '.'. *)

IdArgs == Ids \cup {EmptyStr}

NextRestart ==
    \/ DoInit
    \/ \E cfgOk \in BOOLEAN : DoReload(cfgOk)
    \/ \E key \in DOMAIN cfgs, run \in FactoryRuns : DoReloadEntry(key, run)
    \/ \E id \in IdArgs, typ \in TypArgs, props \in CreateProps, storeOk \in BOOLEAN :
       \E run \in RunsFor(id, typ, storeOk) :
           DoCreateNamed(id, typ, props, storeOk, run)
    \/ \E id \in IdArgs, typ \in TypArgs, props \in CreateProps :
       \E run \in RunsFor(id, typ, TRUE) :
           DoCreateNonStored(id, typ, props, run)
    \/ \E id \in IdArgs, props \in {EmptyProps} : DoDetach(id, props)
    \/ \E selId \in IdArgs, dropOk \in BOOLEAN : DoDrop(selId, dropOk)

SpecRestart == Init /\ [][NextRestart]_vars

---------------------------------------------------------------------------
(* The registry under concurrent goroutines.  running[p] is the call          *)
(* goroutine p is in: pc is "locked" between Lock() and the lookup in       *)
(* connectionPool, "driver" while backoff.Retry runs (n factory invocations *)
(* made), "rlocked" between RLock() and RUnlock(), "loop" in the loop of    *)
(* ReloadConnection (n entries visited) and "done" when the call has        *)
(* returned err; the deferred Unlock() is part of the step that returns.    *)

ConcIds == {<<"c1">>}

CreateOps == {"CreateNamedConnection", "CreateNonStoredConnection", "FetchConnection"}

\* p is in no call
Free(p) == running[p].pc \in {"idle", "done"}

\* a Lock() that does not wait
CanLock_NoWait(p) == TRUE

\* Lock() returns when there is no writer and no reader
CanLock(p) == lock.w = "none" /\ lock.r = {}

\* RLock() returns when there is no writer
CanRLock(p) == lock.w = "none"

\* a backoff that never returns Stop
BudgetSpent_Never(n) == FALSE

\* the elapsed budget of the backoff is used up after the n-th invocation
BudgetSpent(n) == n >= MaxAttempts

Start(op, pc, id, typ) ==
    [op |-> op, pc |-> pc, id |-> id, typ |-> typ, n |-> 0, err |-> Nil]

Return(c, err) == [c EXCEPT !.pc = "done", !.err = err]

\* Create*: the arguments are valid; Lock().
ConcCreateLock(p, op, id, typ) ==
    /\ Free(p)
    /\ CanLock(p)
    /\ lock' = [lock EXCEPT !.w = p]
    /\ running' = [running EXCEPT ![p] = Start(op, "locked", id, typ)]
    /\ UNCHANGED <<connectionPool, failConnection, store, cfgs, conns, holders,
                   reloaded>>

\* Create*: the lookup in connectionPool, the store write of
\* CreateNamedConnection and the lookup in modules.ConnectionRegister.
ConcCreateCheck(p, storeOk) ==
    LET c == running[p]
        stored == c.op = "CreateNamedConnection"
    IN  /\ c.pc = "locked"
        /\ c.op \in CreateOps
        /\ IF c.id \in DOMAIN connectionPool
           THEN /\ running' = [running EXCEPT ![p] =
                                  Return(c, Err("already been created", c.id))]
                /\ lock' = [lock EXCEPT !.w = "none"]
                /\ store' = store
           ELSE IF stored /\ ~storeOk
           THEN /\ running' = [running EXCEPT ![p] =
                                  Return(c, Err("store write failed", EmptyStr))]
                /\ lock' = [lock EXCEPT !.w = "none"]
                /\ store' = store
           ELSE /\ store' = IF stored THEN storeConnectionMeta(store, c.typ, c.id, KProps)
                            ELSE store
                /\ IF ToLower(c.typ) \notin ConnectionRegister
                   THEN /\ running' = [running EXCEPT ![p] =
                                        Return(c, Err("unknown connection type", EmptyStr))]
                        /\ lock' = [lock EXCEPT !.w = "none"]
                   ELSE /\ running' = [running EXCEPT ![p].pc = "driver"]
                        /\ lock' = lock
        /\ UNCHANGED <<connectionPool, failConnection, cfgs, conns, holders, reloaded>>

\* Create*: one factory invocation of backoff.Retry, with outcome o; the
\* insertion and the return when the driver ends with it.
ConcInvoke(p, o) ==
    LET c == running[p]
        n == c.n + 1
    IN  /\ c.pc = "driver"
        /\ IF o = "ok"
           THEN /\ Len(conns) < MaxConns
                /\ connectionPool' =
                       Put(connectionPool, c.id,
                           ConnectionMeta(c.id, c.typ, KProps, Len(conns) + 1,
                                          c.op = "CreateNamedConnection"))
                /\ failConnection' =
                       IF c.op = "CreateNamedConnection" /\ c.id \in DOMAIN failConnection
                       THEN Del(failConnection, c.id) ELSE failConnection
                /\ conns' = Append(conns, 0)
                /\ running' = [running EXCEPT ![p] = [Return(c, Nil) EXCEPT !.n = n]]
                /\ lock' = [lock EXCEPT !.w = "none"]
           ELSE /\ UNCHANGED <<connectionPool, failConnection, conns>>
                /\ IF o = "perm"
                   THEN /\ running' = [running EXCEPT ![p] =
                               [Return(c, Err("permanent error", EmptyStr)) EXCEPT !.n = n]]
                        /\ lock' = [lock EXCEPT !.w = "none"]
                   ELSE IF BudgetSpent(n)
                   THEN /\ running' = [running EXCEPT ![p] =
                               [Return(c, Err("io error", EmptyStr)) EXCEPT !.n = n]]
                        /\ lock' = [lock EXCEPT !.w = "none"]
                   ELSE /\ running' = [running EXCEPT ![p].n = n]
                        /\ lock' = lock
        /\ UNCHANGED <<store, cfgs, holders, reloaded>>

\* DropNameConnection(id), DetachConnection(id, {}): Lock().
ConcLock(p, op, id) ==
    /\ Free(p)
    /\ CanLock(p)
    /\ lock' = [lock EXCEPT !.w = p]
    /\ running' = [running EXCEPT ![p] = Start(op, "locked", id, EmptyStr)]
    /\ UNCHANGED <<connectionPool, failConnection, store, cfgs, conns, holders,
                   reloaded>>

\* DropNameConnection under the lock, to its return.
ConcDrop(p, dropOk) ==
    /\ running[p].pc = "locked"
    /\ running[p].op = "DropNameConnection"
    /\ Apply(DropNameConnection(running[p].id, dropOk))
    /\ running' = [running EXCEPT ![p] =
                    Return(@, DropNameConnection(running[p].id, dropOk).err)]
    /\ lock' = [lock EXCEPT !.w = "none"]
    /\ UNCHANGED <<cfgs, holders, reloaded>>

\* DetachConnection without selector under the lock, to its return.
ConcDetach(p) ==
    /\ running[p].pc = "locked"
    /\ running[p].op = "DetachConnection"
    /\ Apply(DetachConnection(running[p].id, EmptyProps))
    /\ running' = [running EXCEPT ![p] = Return(@, Nil)]
    /\ lock' = [lock EXCEPT !.w = "none"]
    /\ UNCHANGED <<cfgs, holders, reloaded>>

\* PingConnection: RLock().
ConcPingRLock(p, id) ==
    /\ Free(p)
    /\ CanRLock(p)
    /\ lock' = [lock EXCEPT !.r = @ \cup {p}]
    /\ running' = [running EXCEPT ![p] = Start("PingConnection", "rlocked", id, EmptyStr)]
    /\ UNCHANGED <<connectionPool, failConnection, store, cfgs, conns, holders,
                   reloaded>>

\* PingConnection under the read lock, to its return.
ConcPing(p) ==
    /\ running[p].pc = "rlocked"
    /\ running' = [running EXCEPT ![p] = Return(@, PingConnection(running[p].id, {}))]
    /\ lock' = [lock EXCEPT !.r = @ \ {p}]
    /\ UNCHANGED <<connectionPool, failConnection, store, cfgs, conns, holders,
                   reloaded>>

\* ReloadConnection up to its loop; it takes no lock.
ConcReload(p, cfgOk) ==
    /\ Free(p)
    /\ \A q \in Procs : running[q].pc # "loop"
    /\ cfgs' = IF cfgOk THEN store ELSE cfgs
    /\ running' = [running EXCEPT ![p] =
                    IF ~cfgOk
                    THEN Return(Start("ReloadConnection", "loop", EmptyStr, EmptyStr),
                                Err("read failed", EmptyStr))
                    ELSE IF DOMAIN store = {}
                    THEN Return(Start("ReloadConnection", "loop", EmptyStr, EmptyStr), Nil)
                    ELSE Start("ReloadConnection", "loop", EmptyStr, EmptyStr)]
    /\ UNCHANGED <<connectionPool, failConnection, store, conns, holders, reloaded,
                   lock>>

\* One iteration of the loop of ReloadConnection, and its return after the last.
ConcReloadEntry(p, key, run) ==
    /\ running[p].pc = "loop"
    /\ key \in DOMAIN cfgs
    /\ Apply(ReloadEntry(key, run))
    /\ cfgs' = Del(cfgs, key)
    /\ running' = [running EXCEPT ![p] =
                    IF DOMAIN cfgs = {key}
                    THEN [Return(@, Nil) EXCEPT !.n = @ + 1]
                    ELSE [@ EXCEPT !.n = @ + 1]]
    /\ UNCHANGED <<holders, reloaded, lock>>

\* SpecConc: the calls that take the lock, by two goroutines.
NextConc ==
    \/ \E p \in Procs, op \in CreateOps, id \in ConcIds, typ \in Types :
           ConcCreateLock(p, op, id, typ)
    \/ \E p \in Procs, storeOk \in BOOLEAN : ConcCreateCheck(p, storeOk)
    \/ \E p \in Procs, o \in Outcomes : ConcInvoke(p, o)
    \/ \E p \in Procs, op \in {"DropNameConnection", "DetachConnection"},
          id \in ConcIds : ConcLock(p, op, id)
    \/ \E p \in Procs, dropOk \in BOOLEAN : ConcDrop(p, dropOk)
    \/ \E p \in Procs : ConcDetach(p)
    \/ \E p \in Procs, id \in ConcIds : ConcPingRLock(p, id)
    \/ \E p \in Procs : ConcPing(p)

\* every goroutine that is in a call goes on: the scheduler is fair and the
\* factory returns
Fairness ==
    \A p \in Procs :
        /\ WF_vars(\E storeOk \in BOOLEAN : ConcCreateCheck(p, storeOk))
        /\ WF_vars(\E o \in Outcomes : ConcInvoke(p, o))

SpecConc == Init /\ [][NextConc]_vars /\ Fairness

\* SpecConcReload: the same, and ReloadConnection.
NextConcReload ==
    \/ NextConc
    \/ \E p \in Procs, cfgOk \in BOOLEAN : ConcReload(p, cfgOk)
    \/ \E p \in Procs, key \in DOMAIN cfgs, run \in FactoryRuns :
           ConcReloadEntry(p, key, run)

SpecConcReload == Init /\ [][NextConcReload]_vars

---------------------------------------------------------------------------
(* The inputs the claims about single calls range over. *)

CallIds == Ids \cup Callers

\* the ids of the stored entries, as CreateNamedConnection persisted them
PersistedIds == {id \in Ids : \E typ \in Types : StoreKey(typ, id) \in DOMAIN store}

\* the callers that hold the shared connection sel
HoldersOf(sel) == {h \in holders : h[2] = sel}

\* the live records whose connection is c
Owners(c) == {id \in DOMAIN connectionPool : connectionPool[id].conn = c}

\* the message of the error the driver ends with on run, "nil" for success
DriverResult(typ, run) ==
    IF ToLower(typ) \notin ConnectionRegister THEN "unknown connection type"
    ELSE IF \E k \in 1..Len(run) :
                run[k] = "perm" /\ \A j \in 1..(k - 1) : run[j] = "io"
    THEN "permanent error"
    ELSE IF \A k \in 1..Len(run) : run[k] = "io" THEN "io error"
    ELSE "nil"

---------------------------------------------------------------------------
(* C1: no id is in both connectionPool and failConnection. *)
C1_LiveFailedDisjoint ==
    DOMAIN connectionPool \cap DOMAIN failConnection = {}

(* C2: every live record has refCount >= 0. *)
C2_RefCountNonNegative ==
    \A id \in DOMAIN connectionPool : connectionPool[id].refCount >= 0

(* C3: a step closes the connection of a live record only if it is          *)
(* DropNameConnection on a named record with refCount 0, or a               *)
(* DetachConnection on an anonymous record; never with refCount > 0.        *)
C3_CloseOnlyUnreferenced ==
    [][\A id \in DOMAIN connectionPool :
          LET meta == connectionPool[id]
          IN  conns'[meta.conn] > conns[meta.conn] =>
                 /\ meta.refCount <= 0
                 /\ \/ /\ meta.named
                       /\ meta.refCount = 0
                       /\ \E dropOk \in BOOLEAN : DoDrop(id, dropOk)
                    \/ /\ ~meta.named
                       /\ \E caller \in Callers, props \in DetachProps :
                              DoDetach(caller, props)]_vars

(* C4: a record that CreateNamedConnection put in connectionPool is removed *)
(* or replaced only by DropNameConnection on its id while its refCount is 0.*)
C4_NamedLeavesOnlyByDrop ==
    [][\A id \in DOMAIN connectionPool :
          LET meta == connectionPool[id]
          IN  (/\ meta.named
               /\ \/ id \notin DOMAIN connectionPool'
                  \/ connectionPool'[id].conn # meta.conn) =>
                 /\ meta.refCount = 0
                 /\ \E dropOk \in BOOLEAN : DoDrop(id, dropOk)]_vars

(* C5: DropNameConnection on a live id with refCount > 0 returns the        *)
(* "can't be dropped due to reference" error, leaves connectionPool,        *)
(* failConnection, the store and every refCount as they are and closes      *)
(* nothing.                                                                  *)
C5_DropRefusedWhileReferenced ==
    \A selId \in DOMAIN connectionPool, dropOk \in BOOLEAN :
        connectionPool[selId].refCount > 0 =>
            LET o == DropNameConnection(selId, dropOk)
            IN  /\ o.err = Err("can't be dropped due to reference", selId)
                /\ o.connectionPool = connectionPool
                /\ o.failConnection = failConnection
                /\ o.store = store
                /\ o.conns = conns
                /\ o.closed = {}

C5_Witness ==
    \E selId \in DOMAIN connectionPool :
        /\ connectionPool[selId].named
        /\ connectionPool[selId].refCount > 0
        /\ HoldersOf(selId) # {}
        /\ DOMAIN store # {}
        /\ DropNameConnection(selId, TRUE).err.msg = "can't be dropped due to reference"

(* C6: the refCount of a live record is the number of callers that hold it  *)
(* (FetchConnection with its selector succeeded, no DetachConnection by the *)
(* same caller with that selector since), and DropNameConnection closes no  *)
(* connection that a caller holds.                                          *)
C6_RefCountIsHolders ==
    /\ \A id \in DOMAIN connectionPool :
           connectionPool[id].refCount = Cardinality(HoldersOf(id))
    /\ \A selId \in CallIds, dropOk \in BOOLEAN :
           DropNameConnection(selId, dropOk).closed # {} => HoldersOf(selId) = {}

(* C7: while a record made by CreateNamedConnection(id, typ, props) is      *)
(* live, the store holds connections.<typ>.<id> with value props and no     *)
(* entry for the same id under another type.                                *)
C7_OneStoredEntryPerNamed ==
    \A id \in DOMAIN connectionPool :
        LET meta == connectionPool[id]
        IN  meta.named =>
               /\ StoreKey(meta.Typ, id) \in DOMAIN store
               /\ store[StoreKey(meta.Typ, id)] = meta.Props
               /\ \A typ \in Types \ {meta.Typ} : StoreKey(typ, id) \notin DOMAIN store

(* C8: CreateNonStoredConnection, FetchConnection and DetachConnection      *)
(* leave the store as it is, with any inputs, whether they succeed or fail. *)
C8_AnonymousNeverPersisted ==
    \A id \in Callers :
        /\ \A props \in DetachProps : DetachConnection(id, props).store = store
        /\ \A typ \in TypArgs :
           \A run \in RunsFor(id, typ, TRUE) :
               /\ \A props \in CreateProps :
                      CreateNonStoredConnection(id, typ, props, run).store = store
               /\ \A props \in DetachProps :
                      FetchConnection(id, typ, props, run).store = store

C8_Witness ==
    /\ DOMAIN store # {}
    /\ \E id \in DOMAIN connectionPool :
           /\ ~connectionPool[id].named
           /\ \A typ \in Types : StoreKey(typ, id) \notin DOMAIN store
    /\ \E id \in DOMAIN connectionPool : connectionPool[id].refCount > 0

(* C9: when ReloadConnection has returned after InitConnectionManager,      *)
(* GetAllConnectionStatus reports every persisted id, "running" if and only *)
(* if the factory driver succeeded for it and "fail" with the driver's      *)
(* error message otherwise.                                                 *)
C9_ReloadReportsEveryPersistedId ==
    (reloaded.phase = "fresh" /\ Idle) =>
        LET status == GetAllConnectionStatus({})
            ok(id) == \E key \in DOMAIN reloaded.log :
                          key[3] = id[1] /\ reloaded.log[key] = "nil"
        IN  \A id \in PersistedIds :
                /\ id \in DOMAIN status
                /\ status[id].Status = "running" <=> ok(id)
                /\ ~ok(id) =>
                       /\ status[id].Status = "fail"
                       /\ \E key \in DOMAIN reloaded.log :
                              key[3] = id[1] /\ status[id].ErrMsg = reloaded.log[key]

(* C10: a factory error that is not an IO error ends the driver at once:    *)
(* after k - 1 IO errors and a permanent error the factory has been invoked *)
(* k times (once, when the first invocation fails so), whatever the run     *)
(* holds after it, and Create* returns that error; an unknown type fails    *)
(* with "unknown connection type" and no factory invocation.                *)
C10_PermanentErrorStopsDriver ==
    \A id \in (CallIds \ {EmptyStr}) \ DOMAIN connectionPool, typ \in Types,
       props \in CreateProps, run \in FactoryRuns :
        LET named == CreateNamedConnection(id, typ, props, TRUE, run)
            anon == CreateNonStoredConnection(id, typ, props, run)
        IN  /\ ToLower(typ) \notin ConnectionRegister =>
                   /\ named.calls = 0 /\ anon.calls = 0
                   /\ named.err = Err("unknown connection type", EmptyStr)
                   /\ anon.err = named.err
            /\ \A k \in 1..Len(run) :
                   (/\ ToLower(typ) \in ConnectionRegister
                    /\ run[k] = "perm"
                    /\ \A j \in 1..(k - 1) : run[j] = "io") =>
                       /\ named.calls = k /\ anon.calls = k
                       /\ named.err = Err("permanent error", EmptyStr)
                       /\ anon.err = named.err
                       /\ named.connectionPool = connectionPool
                       /\ anon.connectionPool = connectionPool

C10_Witness ==
    \E id \in (CallIds \ {EmptyStr}) \ DOMAIN connectionPool :
        /\ StoreKey(<<"Mock">>, id) \in DOMAIN store
        /\ \E run \in FactoryRuns :
               /\ run[1] = "perm" /\ run[MaxAttempts] = "ok"
               /\ CreateNamedConnection(id, <<"Mock">>, KProps, TRUE, run).calls = 1

(* C12: when the store write of CreateNamedConnection fails, the call       *)
(* returns that error, invokes no factory and leaves connectionPool,        *)
(* failConnection, the store and the connections as they are.               *)
C12_StoreWriteFailureChangesNothing ==
    \A id \in (CallIds \ {EmptyStr}) \ DOMAIN connectionPool, typ \in Types,
       props \in CreateProps, run \in FactoryRuns :
        LET o == CreateNamedConnection(id, typ, props, FALSE, run)
        IN  /\ o.err = Err("store write failed", EmptyStr)
            /\ o.calls = 0
            /\ o.connectionPool = connectionPool
            /\ o.failConnection = failConnection
            /\ o.store = store
            /\ o.conns = conns
            /\ o.closed = {}

C12_Witness ==
    \E id \in DOMAIN failConnection \ DOMAIN connectionPool :
        /\ DOMAIN store # {}
        /\ DOMAIN connectionPool # {}
        /\ CreateNamedConnection(id, <<"Mock">>, KProps, TRUE,
                                 [n \in 1..MaxAttempts |-> "ok"]).err = Nil
        /\ CreateNamedConnection(id, <<"Mock">>, KProps, FALSE,
                                 [n \in 1..MaxAttempts |-> "ok"]).err # Nil

(* C13: when the store delete of DropNameConnection fails on a live record  *)
(* with refCount 0, the call returns an error, closes nothing and leaves    *)
(* the record, its connection and its refCount as they are, so that         *)
(* PingConnection and FetchConnection with that selector reach it.          *)
C13_DropStoreFailureKeepsRecord ==
    \A selId \in DOMAIN connectionPool :
        connectionPool[selId].refCount = 0 =>
            LET o == DropNameConnection(selId, FALSE)
            IN  /\ o.err = Err("drop connection failed", selId)
                /\ o.closed = {}
                /\ o.conns = conns
                /\ o.connectionPool = connectionPool
                /\ o.failConnection = failConnection
                /\ o.store = store
                /\ PingConnection(selId, {}) = Nil
                /\ \A id \in Callers \ {EmptyStr} :
                       LET f == FetchConnection(id, <<"Mock">>, SelProps(selId),
                                                [n \in 1..MaxAttempts |-> "ok"])
                       IN  /\ f.err = Nil
                           /\ f.connectionPool[selId].conn = connectionPool[selId].conn
                           /\ f.connectionPool[selId].refCount = 1

C13_Witness ==
    \E selId \in DOMAIN connectionPool :
        /\ connectionPool[selId].named
        /\ connectionPool[selId].refCount = 0
        /\ StoreKey(connectionPool[selId].Typ, selId) \in DOMAIN store
        /\ DropNameConnection(selId, FALSE).err.msg = "drop connection failed"
        /\ DropNameConnection(selId, TRUE).err = Nil

(* C14: a step of FetchConnection with selector s that succeeds, followed   *)
(* at once by DetachConnection with the same selector, leaves the refCount  *)
(* of s as it was before the fetch, the record live with the same           *)
(* connection, no connection closed and the store as it was.                *)
C14_AttachThenDetachRestoresRefCount ==
    [][\A id \in Callers \ {EmptyStr}, s \in DOMAIN connectionPool :
          (/\ <<id, s>> \notin holders
           /\ holders' = holders \cup {<<id, s>>}
           /\ connectionPool' = FetchConnection(id, <<"Mock">>, SelProps(s),
                                    [n \in 1..MaxAttempts |-> "ok"]).connectionPool
           /\ connectionPool'[s].refCount = connectionPool[s].refCount + 1) =>
              LET o == DetachConnection(id, SelProps(s))'
              IN  /\ o.err = Nil
                  /\ s \in DOMAIN o.connectionPool
                  /\ o.connectionPool[s].refCount = connectionPool[s].refCount
                  /\ o.connectionPool[s].conn = connectionPool[s].conn
                  /\ o.connectionPool = connectionPool
                  /\ o.conns = conns
                  /\ o.closed = {}
                  /\ o.store = store
                  /\ o.failConnection = failConnection]_vars

C14_Witness ==
    \E h \in holders :
        /\ h[2] \in DOMAIN connectionPool
        /\ connectionPool[h[2]].refCount = 1
        /\ DOMAIN store # {}
        /\ DetachConnection(h[1], SelProps(h[2])).connectionPool[h[2]].refCount = 0

(* C17: for an id that is in failConnection and not in connectionPool,      *)
(* PingConnection and FetchConnection with that selector fail with "not     *)
(* existed" and DetachConnection (with that selector, or under that id) has *)
(* no effect, failConnection staying as it is; and while the registry is in *)
(* service (InitConnectionManager builds it anew, both tables empty) a step *)
(* takes an id out of failConnection only if it is DropNameConnection on    *)
(* that id or a Create of that id that succeeds.                            *)
C17_FailedEntryStays ==
    /\ [](\A id \in DOMAIN failConnection \ DOMAIN connectionPool :
            /\ PingConnection(id, {}) = Err("not existed", id)
            /\ DetachConnection(id, EmptyProps) = Returns(Nil, 0)
            /\ \A caller \in CallIds \ {EmptyStr} :
                   /\ FetchConnection(caller, <<"Mock">>, SelProps(id),
                                      [n \in 1..MaxAttempts |-> "ok"])
                          = Returns(Err("not existed", id), 0)
                   /\ DetachConnection(caller, SelProps(id)) = Returns(Nil, 0))
    /\ [][\A id \in DOMAIN failConnection :
              id \notin DOMAIN failConnection' =>
                  \/ DoInit
                  \/ \E dropOk \in BOOLEAN : DoDrop(id, dropOk)
                  \/ /\ id \notin DOMAIN connectionPool
                     /\ id \in DOMAIN connectionPool'
                     /\ \E typ \in Types, props \in CreateProps, run \in FactoryRuns :
                            \/ DoCreateNamed(id, typ, props, TRUE, run)
                            \/ DoCreateNonStored(id, typ, props, run)]_vars

C17_Witness ==
    \E id \in DOMAIN failConnection \ DOMAIN connectionPool :
        /\ DOMAIN connectionPool # {}
        /\ PingConnection(id, {}).msg = "not existed"
        /\ DropNameConnection(id, TRUE).failConnection = Del(failConnection, id)

(* C18: when CreateNamedConnection has written the store and the driver     *)
(* fails (unknown type, permanent error, IO errors until the budget is      *)
(* spent), the call returns the driver's error, leaves connectionPool and   *)
(* failConnection as they are (a failed entry of the id is kept) and the    *)
(* store holds connections.<typ>.<id> with the props.                       *)
C18_FailedCreateKeepsStoredEntry ==
    \A id \in (CallIds \ {EmptyStr}) \ DOMAIN connectionPool, typ \in Types,
       props \in CreateProps, run \in FactoryRuns :
        DriverResult(typ, run) # "nil" =>
            LET o == CreateNamedConnection(id, typ, props, TRUE, run)
            IN  /\ o.err = Err(DriverResult(typ, run), EmptyStr)
                /\ o.connectionPool = connectionPool
                /\ o.failConnection = failConnection
                /\ o.conns = conns
                /\ o.closed = {}
                /\ StoreKey(typ, id) \in DOMAIN o.store
                /\ o.store = Put(store, StoreKey(typ, id), props)

C18_Witness ==
    \E id \in DOMAIN failConnection \ DOMAIN connectionPool :
        /\ StoreKey(<<"Mock">>, id) \notin DOMAIN store
        /\ StoreKey(<<"nope">>, id) \in DOMAIN store
        /\ id \in DOMAIN CreateNamedConnection(id, <<"Mock">>, KProps, TRUE,
                              [n \in 1..MaxAttempts |-> "io"]).failConnection
        /\ StoreKey(<<"Mock">>, id) \in
               DOMAIN CreateNamedConnection(id, <<"Mock">>, KProps, TRUE,
                          [n \in 1..MaxAttempts |-> "io"]).store

(* C19: every connection a factory returned is the conn of exactly one live *)
(* record and not closed, or of no live record and closed exactly once; and *)
(* while the registry is in service (between two InitConnectionManager) no  *)
(* step takes a connection from its live record without closing it.         *)
C19_NoLeakNoDoubleClose ==
    /\ [](\A c \in 1..Len(conns) :
            /\ conns[c] <= 1
            /\ Cardinality(Owners(c)) <= 1
            /\ conns[c] = 1 => Owners(c) = {})
    /\ [][DoInit \/ \A c \in 1..Len(conns) :
                        (Owners(c) # {} /\ Owners(c)' = {}) => conns'[c] = 1]_vars

(* C20: when InitConnectionManager and then ReloadConnection have run, with *)
(* every factory succeeding, the ids, types and props of the live records   *)
(* are those of the named records that were live before                     *)
(* InitConnectionManager.                                                   *)
C20_RestartRoundTrip ==
    (/\ reloaded.phase = "fresh"
     /\ Idle
     /\ \A key \in DOMAIN reloaded.log :
            reloaded.log[key] \in {"nil", "unknown connection type"}) =>
        {[ID |-> connectionPool[id].ID, Typ |-> connectionPool[id].Typ,
          Props |-> connectionPool[id].Props] : id \in DOMAIN connectionPool}
            = reloaded.before

C15_MutationsUnderWriteLock ==
    [][(connectionPool' # connectionPool \/ failConnection' # failConnection) =>
           \E p \in Procs :
               /\ running'[p] # running[p]
               /\ lock.w = p
               /\ lock.r = {}]_vars

(* C16: under any interleaving of Create* calls by concurrent goroutines, a *)
(* call that is past its lookup has an id that is not live, a call succeeds *)
(* only on an id that is not live, and a call that finds its id live        *)
(* returns "already been created" with no factory invocation and with the   *)
(* store, connectionPool and failConnection as they are.                    *)
C16_ConcurrentCreateOnce ==
    /\ [](\A p \in Procs :
            running[p].pc = "driver" => running[p].id \notin DOMAIN connectionPool)
    /\ [][\A p \in Procs :
              LET c == running[p]
                  d == running'[p]
              IN  /\ (c.pc = "driver" /\ d.pc = "done" /\ d.err = Nil) =>
                         /\ c.id \notin DOMAIN connectionPool
                         /\ c.id \in DOMAIN connectionPool'
                         /\ \A q \in Procs \ {p} : running[q].pc # "driver"
                  /\ (/\ c.pc = "locked" /\ c.op \in CreateOps /\ d # c
                      /\ c.id \in DOMAIN connectionPool) =>
                         /\ d.pc = "done"
                         /\ d.err = Err("already been created", c.id)
                         /\ d.n = 0
                         /\ store' = store
                         /\ connectionPool' = connectionPool
                         /\ failConnection' = failConnection
                         /\ conns' = conns]_vars

C16_Witness ==
    \E p \in Procs, q \in Procs :
        /\ running[p].op \in CreateOps
        /\ running[p].pc = "done" /\ running[p].err = Nil
        /\ running[q].op \in CreateOps
        /\ running[q].pc = "done"
        /\ running[q].err = Err("already been created", running[p].id)
        /\ running[p].id \in DOMAIN connectionPool

====
